---- MODULE Spec2Model ----
(***************************************************************************)
(* Rentnest backend: the property routes (backend/routes/propertyRoutes.js) *)
(* and the auth routes (routes/authRoutes.js) over the document store.     *)
(*                                                                         *)
(* Node runs one handler at a time between awaits, so every handler is cut *)
(* at its awaits: one action per store or blob-store operation, together   *)
(* with the synchronous code that follows it up to the next await.         *)
(***************************************************************************)
EXTENDS Integers, Sequences, FiniteSets, TLC

VARIABLES
  properties,  \* the Property collection: _id -> document
  nextId,      \* the next _id the store hands out (ids are never reused)
  reqs,        \* the property requests in flight, one per connection slot
  last,        \* the response the last step sent, with the request it answers
  tog,         \* history: per property, the run of undisturbed toggles (kept when tog.on)
  users,       \* the User collection, in order of creation (_id = position)
  areqs,       \* the auth requests in flight, one per connection slot
  alast,       \* the response the last auth step sent, with the request it answers
  lreq,        \* the list request in flight, if any
  lresp        \* the response the last list step sent, with the query it answers

propVars == <<properties, nextId, reqs, last, tog>>
authVars == <<users, areqs, alast>>
listVars == <<lreq, lresp>>
vars == <<propVars, authVars, listVars>>

(***************************************************************************)
(* Bounds                                                                  *)
(***************************************************************************)
MaxProps == 1    \* property documents ever created
MaxFiles == 2    \* images sent with one create (the route accepts up to 5)
MaxUsers == 2    \* user documents ever created
MaxListProps == 12  \* property documents in the stores the list route is run on
MaxFilters == 2  \* filter parameters one list query sets

Slots == {1, 2}                 \* concurrent connections
Owners == {"u1", "u2"}          \* req.user._id of callers that passed protect, isOwner
FileBuffers == {"imgA", "imgB"} \* file.buffer contents

(***************************************************************************)
(* Values                                                                  *)
(***************************************************************************)
Null == [null |-> TRUE]

\* Texts the routes test or match are sequences of characters; NoText is the
\* empty string, and a text field absent from req.body, both falsy.
NoText == <<>>
Flat == <<"F", "l", "a", "t">>
Nice == <<"N", "i", "c", "e">>
Dhaka == <<"D", "h", "a", "k", "a">>
Banani == <<"B", "a", "n", "a", "n", "i">>
Sylhet == <<"S", "y", "l", "h", "e", "t">>
Villa == <<"V", "i", "l", "l", "a">>
House == <<"h", "o", "u", "s", "e">>
Furnished == <<"f", "u", "r", "n">>
Apartment == <<"a", "p", "t">>

\* A JSON field absent from req.body: JSON.parse is handed undefined, which it
\* reads as the text "undefined".
Undefined == "undefined"

PlainFields == {"title", "description", "propertyType"}
RequiredJson == {"location", "rent", "contact"}
OptionalJson == {"features", "amenities", "terms"}
JsonFields == RequiredJson \cup OptionalJson

\* The JSON texts of the model and the values they denote.
JsonTable ==
  [t \in {"null", "{loc}", "{rent}", "{contact}", "{features}", "[amenities]", "{terms}",
          "{loc2}", "{rent2}", "{features2}"} |->
     CASE t = "null" -> Null
       [] t = "{loc2}" -> [division |-> Sylhet, district |-> Sylhet, area |-> Sylhet]
       [] t = "{rent2}" -> [amount |-> 5000]
       [] t = "{features2}" -> [bedrooms |-> 3, furnished |-> <<"u", "n", "f">>]
       [] t = "{loc}" -> [division |-> Dhaka, district |-> Dhaka, area |-> Banani]
       [] t = "{rent}" -> [amount |-> 3000]
       [] t = "{contact}" -> [phone |-> "017"]
       [] t = "{features}" -> [bedrooms |-> 2, furnished |-> Furnished]
       [] t = "[amenities]" -> [list |-> <<"wifi">>]
       [] t = "{terms}" -> [advance |-> 1]]

\* JSON.parse: the value of a JSON text, a SyntaxError on anything else
\* (the text "undefined" of an absent field included).
JSONparse(t) ==
  IF t \in DOMAIN JsonTable THEN [ok |-> TRUE, val |-> JsonTable[t]]
  ELSE [ok |-> FALSE, val |-> Null]

\* !x for the strings of the form and for parsed JSON values.
FalsyString(x) == x = NoText
FalsyValue(v) == v = Null

\* result.secure_url of the upload of one buffer.
SecureUrl(buf) == IF buf = "imgA" THEN "https://cdn/A" ELSE "https://cdn/B"

\* An _id is well formed when it casts to an ObjectId; 0 stands for the rest.
BadId == 0
CastsToObjectId(id) == id >= 1

CastError == [error |-> "CastError", kind |-> "ObjectId"]

\* Property.findById: a CastError for a malformed id, null for an absent one.
FindById(id) ==
  IF ~CastsToObjectId(id) THEN CastError
  ELSE IF id \in DOMAIN properties THEN properties[id]
  ELSE Null

IsDoc(d) == d # Null /\ d # CastError

(***************************************************************************)
(* Requests and responses                                                  *)
(***************************************************************************)
NoBody == [f \in PlainFields \cup JsonFields |-> IF f \in PlainFields THEN NoText ELSE Undefined]

GoodBody ==
  [title |-> Flat, description |-> Nice, propertyType |-> Apartment,
   location |-> "{loc}", rent |-> "{rent}", contact |-> "{contact}",
   features |-> "{features}", amenities |-> "[amenities]", terms |-> "{terms}"]

\* The document Property.create is handed (lines 72-84), before the store adds
\* _id and the schema defaults.
NewDoc(caller, body, photos) ==
  [owner |-> caller,
   title |-> body.title,
   description |-> body.description,
   propertyType |-> body.propertyType,
   location |-> JSONparse(body.location).val,
   rent |-> JSONparse(body.rent).val,
   features |-> JSONparse(body.features).val,
   amenities |-> JSONparse(body.amenities).val,
   photos |-> photos,
   contact |-> JSONparse(body.contact).val,
   terms |-> JSONparse(body.terms).val]

\* Schema default of the Property model.
DefaultIsAvailable == TRUE

\* What the store adds on insert.
Stored(doc, id) ==
  [_id |-> id, owner |-> doc.owner, title |-> doc.title,
   description |-> doc.description, propertyType |-> doc.propertyType,
   location |-> doc.location, rent |-> doc.rent, features |-> doc.features,
   amenities |-> doc.amenities, photos |-> doc.photos, contact |-> doc.contact,
   terms |-> doc.terms, isAvailable |-> DefaultIsAvailable, createdAt |-> id]

\* A PUT body: the fields it names (has) and their values (val).
PatchBase == Stored(NewDoc("u1", GoodBody, <<>>), 0)
NoPatch == [has |-> {}, val |-> PatchBase]

\* The update findByIdAndUpdate(id, req.body) makes: $set of every field named.
ApplyPatch(doc, patch) ==
  [f \in DOMAIN doc |-> IF f \in patch.has THEN patch.val[f] ELSE doc[f]]

\* A connection with no handler suspended on it.
Idle ==
  [op |-> "none", caller |-> "none", id |-> BadId, body |-> NoBody,
   patch |-> NoPatch, files |-> <<>>, pc |-> "idle", doc |-> Null,
   photos |-> <<>>]

\* A handler suspended at an await.
Await(op, caller, id, body, patch, files, pc, doc, photos) ==
  [op |-> op, caller |-> caller, id |-> id, body |-> body, patch |-> patch,
   files |-> files, pc |-> pc, doc |-> doc, photos |-> photos]

NoResp == [op |-> "none", caller |-> "none", id |-> BadId, body |-> NoBody,
           status |-> 0, message |-> "", property |-> Null]

\* res.status(status).json({message, data: {property}}) to the request (op, caller, id).
Resp(op, caller, id, status, message, property) ==
  [op |-> op, caller |-> caller, id |-> id, body |-> NoBody, status |-> status,
   message |-> message, property |-> property]

\* The same to a create, which has a form and no id.
CreateResp(caller, body, status, message, property) ==
  [op |-> "create", caller |-> caller, id |-> BadId, body |-> body,
   status |-> status, message |-> message, property |-> property]

\* error.message of what JSON.parse and the uploader throw.
SyntaxError == "Unexpected token"
UploadError == "upload failed"

\* Ids a request may name: malformed, stored, deleted or never allocated.
ReqIds == 0 .. (MaxProps + 1)

\* The PUT bodies of the model.
AvailPatches ==
  {[has |-> {"isAvailable"}, val |-> [PatchBase EXCEPT !.isAvailable = FALSE]]}

Patches ==
  AvailPatches
  \cup {[has |-> {"owner"}, val |-> [PatchBase EXCEPT !.owner = u]] : u \in Owners}

\* The forms of the model: every text field present or not, every JSON field
\* absent (u), unparsable (b), the text null (n), or the text of a value (v).
JsonText(f, k) ==
  CASE k = "u" -> Undefined
    [] k = "b" -> "{not json"
    [] k = "n" -> "null"
    [] OTHER -> GoodBody[f]

Bodies ==
  {[f \in PlainFields \cup JsonFields |->
      IF f \in PlainFields
      THEN (IF f \in plain THEN GoodBody[f] ELSE NoText)
      ELSE JsonText(f, js[f])] :
     plain \in SUBSET PlainFields,
     js \in [JsonFields -> {"u", "b", "n", "v"}]}

FileSeqs(n) == UNION {[1..k -> FileBuffers] : k \in 0..n}

InFlightCreates == Cardinality({s \in Slots : reqs[s].op = "create"})

(***************************************************************************)
(* History for the toggle pair                                             *)
(***************************************************************************)
Last2(q) == IF Len(q) > 2 THEN SubSeq(q, Len(q) - 1, Len(q)) ELSE q

NoTog == [pre |-> <<>>, cur |-> 0, curPre |-> FALSE, ret |-> FALSE]

TogReset(p) == IF p \in DOMAIN tog.h THEN [tog EXCEPT !.h[p] = NoTog] ELSE tog

\* A property is created.
TogNew(p) == IF tog.on THEN [tog EXCEPT !.h = tog.h @@ (p :> NoTog)] ELSE tog

\* Connection s loads p to toggle it: a run goes on only when no other toggle
\* of p is under way.
TogStart(p, s) ==
  IF p \notin DOMAIN tog.h THEN tog
  ELSE IF tog.h[p].cur = 0
       THEN [tog EXCEPT !.h[p].cur = s, !.h[p].curPre = properties[p].isAvailable]
       ELSE TogReset(p)

\* Connection s saves p with isAvailable = v: the run grows when nothing wrote
\* p since s loaded it.
TogSaved(p, s, v) ==
  IF p \notin DOMAIN tog.h THEN tog
  ELSE IF tog.h[p].cur = s
       THEN [tog EXCEPT !.h[p] = [pre |-> Last2(Append(tog.h[p].pre, tog.h[p].curPre)),
                                  cur |-> 0, curPre |-> FALSE, ret |-> v]]
       ELSE TogReset(p)


(***************************************************************************)
(* Users, auth requests and responses                                      *)
(***************************************************************************)
Asha == <<"A", "s", "h", "a">>
EmailA == <<"a", "@", "x">>
EmailB == <<"b", "@", "x">>
Mobile1 == <<"0", "1", "7">>
Pw1 == <<"p", "w", "1">>
Pw2 == <<"p", "w", "2">>
Tenant == <<"t", "e", "n", "a", "n", "t">>

\* The credential the User model stores for a password, and its
\* comparePassword: the candidate verifies when it hashes to what is stored.
HashOf(password) == [hash |-> password]
ComparePassword(candidate, stored) == HashOf(candidate) = stored

\* generateToken(user._id); NoToken where a response carries none.
NoToken == [token |-> 0]
GenerateToken(id) == [token |-> id]

\* No document: what findOne answers when nothing matches.
NoUser ==
  [_id |-> 0, fullName |-> NoText, email |-> NoText, mobile |-> NoText,
   password |-> HashOf(NoText), accountType |-> NoText, isActive |-> FALSE]

\* Schema default of the User model.
DefaultIsActive == TRUE

\* The document User.create stores (lines 51-57): an empty email or mobile is
\* left out, the password is kept as its hash.
NewUser(id, body) ==
  [_id |-> id, fullName |-> body.fullName, email |-> body.email,
   mobile |-> body.mobile, password |-> HashOf(body.password),
   accountType |-> body.accountType, isActive |-> DefaultIsActive]

UserIds == 1 .. Len(users)

\* User.findOne({ email }) and User.findOne({ mobile }).
FindByEmail(email) ==
  IF \E u \in UserIds : users[u].email = email
  THEN users[CHOOSE u \in UserIds : users[u].email = email]
  ELSE NoUser

FindByMobile(mobile) ==
  IF \E u \in UserIds : users[u].mobile = mobile
  THEN users[CHOOSE u \in UserIds : users[u].mobile = mobile]
  ELSE NoUser

\* The unique indexes of the User model, over the values that are present.
DuplicateKey(doc) ==
  \E u \in UserIds :
    \/ doc.email # NoText /\ users[u].email = doc.email
    \/ doc.mobile # NoText /\ users[u].mobile = doc.mobile

\* emailOrMobile.includes('@')
Includes(text, ch) == \E i \in 1..Len(text) : text[i] = ch

NoSignup ==
  [fullName |-> NoText, email |-> NoText, mobile |-> NoText, password |-> NoText,
   accountType |-> NoText]

\* The signup forms of the model.
SignupBodies ==
  [fullName : {NoText, Asha}, email : {NoText, EmailA, EmailB},
   mobile : {NoText, Mobile1}, password : {NoText, Pw1}, accountType : {NoText, Tenant}]

\* The login forms of the model.
LoginBodies ==
  [emailOrMobile : {NoText, EmailA, EmailB, Mobile1}, password : {NoText, Pw1, Pw2}]

\* A connection with no auth handler suspended on it.  taken: the email or
\* the mobile of the form belonged to a stored user when the request arrived.
AIdle ==
  [op |-> "none", pc |-> "idle", body |-> NoSignup, ident |-> NoText,
   password |-> NoText, user |-> NoUser, taken |-> FALSE]

ANoResp ==
  [op |-> "none", body |-> NoSignup, ident |-> NoText, password |-> NoText,
   user |-> NoUser, taken |-> FALSE, status |-> 0, message |-> "", token |-> NoToken]

\* res.status(status).json({message, data: {user, token}}) to the request r.
AResp(r, status, message, user, token) ==
  [op |-> r.op, body |-> r.body, ident |-> r.ident, password |-> r.password,
   user |-> user, taken |-> r.taken, status |-> status, message |-> message,
   token |-> token]

InFlightSignups == Cardinality({s \in Slots : areqs[s].op = "signup"})

(***************************************************************************)
(* List queries and responses                                              *)
(***************************************************************************)
FilterParams ==
  {"propertyType", "division", "district", "area", "minRent", "maxRent",
   "bedrooms", "furnished", "search"}

\* req.query with nothing in it; a parameter that is absent is NoText.
NoQuery == [f \in FilterParams \cup {"page", "limit"} |-> NoText]

Rent3000 == <<"3", "0", "0", "0">>
Rent4000 == <<"4", "0", "0", "0">>

\* The values each filter parameter takes when a query of the model sets it:
\* words, numerals, and for search also a lone "." and a lone "(".
FilterValues ==
  [propertyType : {Apartment},
   division : {<<"d", "h", "a">>},
   district : {Dhaka},
   area : {<<"n", "a", "n">>},
   minRent : {Rent3000, Rent4000},
   maxRent : {Rent3000, Rent4000},
   bedrooms : {<<"2">>},
   furnished : {Furnished},
   search : {<<"f", "l", "a">>, <<".">>, <<"(">>}]

\* The queries of the model: up to MaxFilters filters, page and limit each
\* absent or a numeral from 1 up.
Queries ==
  {[f \in FilterParams \cup {"page", "limit"} |->
      CASE f = "page" -> pg
        [] f = "limit" -> lim
        [] OTHER -> IF f \in set THEN pick[f] ELSE NoText] :
     set \in {x \in SUBSET FilterParams : Cardinality(x) <= MaxFilters},
     pick \in FilterValues,
     pg \in {NoText, <<"1">>, <<"2">>},
     lim \in {NoText, <<"1">>, <<"2">>}}

LIdle == [pc |-> "idle", query |-> NoQuery, found |-> <<>>]

LNoResp ==
  [status |-> 0, query |-> NoQuery, properties |-> <<>>, count |-> 0, total |-> 0,
   totalPages |-> 0, currentPage |-> 0]

(***************************************************************************)
(* State after construction                                                *)
(***************************************************************************)
InitAuth ==
  /\ users = <<>>
  /\ areqs = [s \in Slots |-> AIdle]
  /\ alast = ANoResp

InitList ==
  /\ lreq = LIdle
  /\ lresp = LNoResp

InitStore ==
  /\ properties = [p \in {} |-> Null]
  /\ nextId = 1
  /\ reqs = [s \in Slots |-> Idle]
  /\ last = NoResp
  /\ InitAuth
  /\ InitList

Init ==
  /\ InitStore
  /\ tog = [on |-> FALSE, h |-> [p \in {} |-> NoTog]]

\* A request is taken by the first connection that is free.
Accepts(s) == reqs[s].pc = "idle" /\ \A t \in Slots : t < s => reqs[t].pc # "idle"

\* The handler on connection s ends with a response.
Finish(s, resp) ==
  /\ reqs' = [reqs EXCEPT ![s] = Idle]
  /\ last' = resp
  /\ UNCHANGED <<authVars, listVars>>

\* The handler on connection s suspends at its next await.
Suspend(s, r) ==
  /\ reqs' = [reqs EXCEPT ![s] = r]
  /\ last' = NoResp
  /\ UNCHANGED <<authVars, listVars>>

(***************************************************************************)
(* POST /  (create)                                                        *)
(***************************************************************************)
\* Lines 32-46: the six JSON.parse calls, then the required-field test.
CreateCheck(body) ==
  IF \E f \in JsonFields : ~JSONparse(body[f]).ok THEN "throw"
  ELSE IF \/ \E f \in PlainFields : FalsyString(body[f])
          \/ \E f \in RequiredJson : FalsyValue(JSONparse(body[f]).val)
       THEN "invalid"
  ELSE "ok"

\* Lines 18-51: a create arrives with a body and files; up to the first await.
\* The store has room for `room` documents in all (a bound of the model).
CreateParse(s, bodies, fileSeqs, room) ==
  /\ Accepts(s)
  /\ nextId + InFlightCreates <= room
  /\ \E caller \in Owners, body \in bodies, files \in fileSeqs :
       LET c == CreateCheck(body) IN
         CASE c = "throw" -> Finish(s, CreateResp(caller, body, 500, SyntaxError, Null))
           [] c = "invalid" -> Finish(s, CreateResp(caller, body, 400,
                                           "Please provide all required fields", Null))
           [] OTHER -> Suspend(s, Await("create", caller, BadId, body, NoPatch, files,
                                        IF Len(files) > 0 THEN "upload" ELSE "persist",
                                        Null, <<>>))
  /\ UNCHANGED <<properties, nextId, tog>>

\* Lines 52-68: one pass of the loop, the upload of the next file resolved.
UploadOk(s) ==
  LET file == reqs[s].files[Len(reqs[s].photos) + 1]
      photos == Append(reqs[s].photos, [url |-> SecureUrl(file), caption |-> ""])
  IN Suspend(s, [reqs[s] EXCEPT !.photos = photos,
                                !.pc = IF Len(photos) = Len(reqs[s].files)
                                       THEN "persist" ELSE "upload"])

\* The error swallowed: the loop ends and the handler goes on to persist.
UploadFailureIgnored(s) == Suspend(s, [reqs[s] EXCEPT !.pc = "persist"])

\* reject(error): the await throws into the catch of lines 92-98.
UploadFails(s) ==
  Finish(s, CreateResp(reqs[s].caller, reqs[s].body, 500, UploadError, Null))

CreateUpload(s) ==
  /\ reqs[s].op = "create" /\ reqs[s].pc = "upload"
  /\ (UploadOk(s) \/ UploadFails(s))
  /\ UNCHANGED <<properties, nextId, tog>>

\* Lines 72-90: Property.create and the 201.
CreatePersist(s) ==
  /\ reqs[s].op = "create" /\ reqs[s].pc = "persist"
  /\ LET doc == Stored(NewDoc(reqs[s].caller, reqs[s].body, reqs[s].photos), nextId) IN
       /\ properties' = properties @@ (nextId :> doc)
       /\ Finish(s, CreateResp(reqs[s].caller, reqs[s].body, 201,
                               "Property created successfully", doc))
  /\ nextId' = nextId + 1
  /\ tog' = TogNew(nextId)

(***************************************************************************)
(* GET /:id                                                                *)
(***************************************************************************)
\* Lines 219-251: findById, the 404, and the catch that turns a CastError
\* (error.kind === 'ObjectId') into the same 404.
GetResp(id) ==
  LET d == FindById(id) IN
    CASE d = CastError -> Resp("get", "none", id, 404, "Property not found", Null)
      [] d = Null -> Resp("get", "none", id, 404, "Property not found", Null)
      [] OTHER -> Resp("get", "none", id, 200, "", d)

Get(s) ==
  /\ Accepts(s)
  /\ \E id \in ReqIds : Finish(s, GetResp(id))
  /\ UNCHANGED <<properties, nextId, tog>>

(***************************************************************************)
(* The load and the two checks the three mutating routes open with         *)
(***************************************************************************)
\* The comparison made on the one document: never unequal.
NotOwnerSameSide(doc, caller) == doc.owner # doc.owner

\* property.owner.toString() !== req.user._id.toString()
NotOwner(doc, caller) == doc.owner # caller

\* The two checks folded into one that reads a missing document as not owned.
GateOwnerFirst(op, id, caller, denied) ==
  LET d == FindById(id) IN
    CASE d = CastError -> Resp(op, caller, id, 500, "Server error", Null)
      [] d = Null -> Resp(op, caller, id, 403, denied, Null)
      [] NotOwner(d, caller) -> Resp(op, caller, id, 403, denied, Null)
      [] OTHER -> Resp(op, caller, id, 0, "go", d)

\* findById, the 404, the 403, and the catch (a plain 500, whatever the
\* error); message "go" when the handler carries on with the document.
Gate(op, id, caller, denied) ==
  LET d == FindById(id) IN
    CASE d = CastError -> Resp(op, caller, id, 500, "Server error", Null)
      [] d = Null -> Resp(op, caller, id, 404, "Property not found", Null)
      [] NotOwner(d, caller) -> Resp(op, caller, id, 403, denied, Null)
      [] OTHER -> Resp(op, caller, id, 0, "go", d)

(***************************************************************************)
(* PUT /:id                                                                *)
(***************************************************************************)
\* Lines 258-272.
UpdateGate(id, caller) ==
  Gate("update", id, caller, "You are not authorized to update this property")

UpdateFind(s, patches) ==
  /\ Accepts(s)
  /\ \E caller \in Owners, id \in ReqIds, patch \in patches :
       LET g == UpdateGate(id, caller) IN
         IF g.message = "go"
         THEN Suspend(s, Await("update", caller, id, NoBody, patch, <<>>, "write",
                               g.property, <<>>))
         ELSE Finish(s, g)
  /\ UNCHANGED <<properties, nextId, tog>>

\* The $set findByIdAndUpdate(req.params.id, req.body, ..) applies.
UpdateSet(doc, patch) == ApplyPatch(doc, patch)

\* Lines 274-287; findByIdAndUpdate answers null when the document is gone.
UpdateWrite(s) ==
  /\ reqs[s].op = "update" /\ reqs[s].pc = "write"
  /\ LET id == reqs[s].id IN
       IF id \in DOMAIN properties
       THEN LET d == UpdateSet(properties[id], reqs[s].patch) IN
              /\ properties' = [properties EXCEPT ![id] = d]
              /\ Finish(s, Resp("update", reqs[s].caller, id, 200,
                                "Property updated successfully", d))
       ELSE /\ properties' = properties
            /\ Finish(s, Resp("update", reqs[s].caller, id, 200,
                              "Property updated successfully", Null))
  /\ tog' = TogReset(reqs[s].id)
  /\ UNCHANGED nextId

(***************************************************************************)
(* DELETE /:id                                                             *)
(***************************************************************************)
\* Lines 303-317.
DeleteGate(id, caller) ==
  Gate("delete", id, caller, "You are not authorized to delete this property")

DeleteFind(s) ==
  /\ Accepts(s)
  /\ \E caller \in Owners, id \in ReqIds :
       LET g == DeleteGate(id, caller) IN
         IF g.message = "go"
         THEN Suspend(s, Await("delete", caller, id, NoBody, NoPatch, <<>>, "write",
                               g.property, <<>>))
         ELSE Finish(s, g)
  /\ UNCHANGED <<properties, nextId, tog>>

\* Lines 319-324; property.deleteOne() removes the document of that _id, if
\* it is still there.
DeleteWrite(s) ==
  /\ reqs[s].op = "delete" /\ reqs[s].pc = "write"
  /\ properties' = [p \in DOMAIN properties \ {reqs[s].id} |-> properties[p]]
  /\ Finish(s, Resp("delete", reqs[s].caller, reqs[s].id, 200,
                    "Property deleted successfully", Null))
  /\ tog' = TogReset(reqs[s].id)
  /\ UNCHANGED nextId

(***************************************************************************)
(* PATCH /:id/toggle-availability                                          *)
(***************************************************************************)
\* Lines 340-354.
ToggleGate(id, caller) ==
  Gate("toggle", id, caller, "You are not authorized to update this property")

\* The flag cleared instead of negated.
FlipClears(doc) == [doc EXCEPT !.isAvailable = FALSE]

\* Line 356, on the loaded document.
Flip(doc) == [doc EXCEPT !.isAvailable = ~doc.isAvailable]

ToggleFind(s) ==
  /\ Accepts(s)
  /\ \E caller \in Owners, id \in ReqIds :
       LET g == ToggleGate(id, caller) IN
         IF g.message = "go"
         THEN /\ Suspend(s, Await("toggle", caller, id, NoBody, NoPatch, <<>>, "write",
                                  Flip(g.property), <<>>))
              /\ tog' = TogStart(id, s)
         ELSE /\ Finish(s, g)
              /\ tog' = tog
  /\ UNCHANGED <<properties, nextId>>

\* Lines 357-363; property.save() writes the modified path, isAvailable; a
\* document that is gone makes save throw into the catch.
ToggleSave(s) ==
  /\ reqs[s].op = "toggle" /\ reqs[s].pc = "write"
  /\ LET p == reqs[s].id
         d == reqs[s].doc
     IN
       IF p \in DOMAIN properties
       THEN /\ properties' = [properties EXCEPT ![p].isAvailable = d.isAvailable]
            /\ Finish(s, Resp("toggle", reqs[s].caller, p, 200,
                              IF d.isAvailable THEN "Property marked as available"
                              ELSE "Property marked as unavailable", d))
            /\ tog' = TogSaved(p, s, d.isAvailable)
       ELSE /\ properties' = properties
            /\ Finish(s, Resp("toggle", reqs[s].caller, p, 500, "Server error", Null))
            /\ tog' = TogReset(p)
  /\ UNCHANGED nextId

(***************************************************************************)
(* The property routes under concurrent requests                           *)
(***************************************************************************)
Next ==
  \E s \in Slots :
    \/ CreateParse(s, {GoodBody}, {<<>>}, MaxProps) \/ CreatePersist(s)
    \/ Get(s)
    \/ UpdateFind(s, Patches) \/ UpdateWrite(s)
    \/ DeleteFind(s) \/ DeleteWrite(s)
    \/ ToggleFind(s) \/ ToggleSave(s)

Spec == Init /\ [][Next]_vars

(***************************************************************************)
(* The same routes with the toggle history kept                            *)
(***************************************************************************)
InitToggle ==
  /\ InitStore
  /\ tog = [on |-> TRUE, h |-> [p \in {} |-> NoTog]]

NextToggle ==
  \E s \in Slots :
    \/ CreateParse(s, {GoodBody}, {<<>>}, MaxProps) \/ CreatePersist(s)
    \/ UpdateFind(s, AvailPatches) \/ UpdateWrite(s)
    \/ DeleteFind(s) \/ DeleteWrite(s)
    \/ ToggleFind(s) \/ ToggleSave(s)

SpecToggle == InitToggle /\ [][NextToggle]_vars


(***************************************************************************)
(* Create alone, over every form, on a store that already holds documents  *)
(***************************************************************************)
InitCreate ==
  /\ properties = [p \in 1..MaxProps |-> Stored(NewDoc("u1", GoodBody, <<>>), p)]
  /\ nextId = MaxProps + 1
  /\ reqs = [s \in Slots |-> Idle]
  /\ last = NoResp
  /\ tog = [on |-> FALSE, h |-> [p \in {} |-> NoTog]]
  /\ InitAuth
  /\ InitList

\* One create request is followed from its arrival to its response.
NextCreate ==
  \/ (last = NoResp /\ CreateParse(1, Bodies, FileSeqs(MaxFiles), MaxProps + 1))
  \/ CreateUpload(1)
  \/ CreatePersist(1)

SpecCreate == InitCreate /\ [][NextCreate]_vars

(***************************************************************************)
(* Properties of the property routes                                       *)
(***************************************************************************)
MutOps == {"update", "delete", "toggle"}

\* This step took a request and answered it before any await after the load.
AnsweredAtGate == reqs' = reqs /\ last'.op \in MutOps

\* Connection s was waiting to write p and this step is its write.
Writes(s, p) == reqs[s].pc = "write" /\ reqs[s].id = p /\ reqs'[s] = Idle

Changed(p) == p \notin DOMAIN properties' \/ properties'[p] # properties[p]

\* C1: an update, delete or toggle that arrives for a stored property whose
\* owner is not the caller is answered 403 and the store is left as it was; a
\* request gets past the load only when its caller owns the property; and
\* whenever a stored property changes or goes, the step is the write of a
\* request whose caller owned the property it loaded.
OnlyOwnerMutates ==
  [][ /\ \A s \in Slots :
           (reqs[s].pc = "idle" /\ reqs'[s].pc = "write")
             => /\ reqs'[s].id \in DOMAIN properties
                /\ properties[reqs'[s].id].owner = reqs'[s].caller
      /\ (AnsweredAtGate /\ last'.id \in DOMAIN properties
            /\ properties[last'.id].owner # last'.caller)
           => (last'.status = 403 /\ properties' = properties)
      /\ \A p \in DOMAIN properties :
           Changed(p) => \E s \in Slots : Writes(s, p) /\ reqs[s].op \in MutOps
                                            /\ reqs[s].caller = reqs[s].doc.owner
    ]_vars

\* A caller who does not own a stored property has just been refused.
NonOwnerRefused ==
  /\ last.op \in MutOps /\ last.status = 403
  /\ last.id \in DOMAIN properties
  /\ properties[last.id].owner # last.caller

\* C2: the owner of a stored property is the same after every step.
OwnerNeverChanges ==
  [][ \A p \in DOMAIN properties \cap DOMAIN properties' :
        properties'[p].owner = properties[p].owner ]_vars

\* C4: for update, delete and toggle, a well-formed id that is not in the
\* store is answered 404 whoever calls, a stored id called by someone else
\* than its owner is answered 403, and 403 is never the answer for an id that
\* is not in the store.
NotFoundBeforeForbidden ==
  [][ AnsweredAtGate =>
        /\ (CastsToObjectId(last'.id) /\ last'.id \notin DOMAIN properties)
             => last'.status = 404
        /\ (last'.id \in DOMAIN properties /\ properties[last'.id].owner # last'.caller)
             => last'.status = 403
        /\ last'.status = 403 => last'.id \in DOMAIN properties
        /\ last'.status = 404 => last'.id \notin DOMAIN properties
    ]_vars

\* A caller who owns nothing in a non-empty store asked for an absent id and got 404.
AbsentIdByStranger ==
  /\ last.op \in MutOps /\ last.status = 404
  /\ CastsToObjectId(last.id) /\ last.id \notin DOMAIN properties
  /\ properties # <<>>
  /\ \A p \in DOMAIN properties : properties[p].owner # last.caller

\* C8: a request whose property id is malformed is answered 404, on get and
\* on update, delete and toggle alike.
MalformedIdIsNotFound ==
  (last.op \in MutOps \cup {"get"} /\ ~CastsToObjectId(last.id)) => last.status = 404

\* C10: after one undisturbed toggle of a property the stored flag is the
\* negation of what it was and is the value the response carried; after two
\* in a row it is what it was before the first.
TogglePairRestores ==
  /\ \A p \in DOMAIN tog.h :
       LET h == tog.h[p] IN
         /\ Len(h.pre) >= 1 =>
              /\ p \in DOMAIN properties
              /\ properties[p].isAvailable = ~h.pre[Len(h.pre)]
              /\ h.ret = properties[p].isAvailable
         /\ Len(h.pre) = 2 => properties[p].isAvailable = h.pre[1]
  /\ (last.op = "toggle" /\ last.status = 200) =>
       /\ last.id \in DOMAIN properties
       /\ last.property.isAvailable = properties[last.id].isAvailable

\* Two toggles of one property ran one after the other with nothing between.
TwoTogglesInARow ==
  \E p \in DOMAIN tog.h : Len(tog.h[p].pre) = 2 /\ last.op = "toggle" /\ last.id = p


(***************************************************************************)
(* Properties of create                                                    *)
(***************************************************************************)
\* The photos of files uploaded in their order.
PhotosOf(files) == [i \in 1..Len(files) |-> [url |-> SecureUrl(files[i]), caption |-> ""]]

\* C6: a create that ends while its images are uploading ends in failure and
\* the store is as it was; a create that persists adds one document, whose
\* photos are the supplied files in their order, and touches no other; and
\* nothing else adds to the store.
UploadFailureAborts ==
  [][ /\ \A s \in Slots :
           reqs[s].op = "create" /\ reqs'[s] = Idle =>
             /\ reqs[s].pc = "upload" =>
                  (last'.status = 500 /\ properties' = properties /\ nextId' = nextId)
             /\ reqs[s].pc = "persist" =>
                  /\ last'.status = 201
                  /\ DOMAIN properties' = DOMAIN properties \cup {nextId}
                  /\ properties'[nextId].photos = PhotosOf(reqs[s].files)
                  /\ \A p \in DOMAIN properties : properties'[p] = properties[p]
      /\ DOMAIN properties' # DOMAIN properties =>
           \E s \in Slots : reqs[s].op = "create" /\ reqs[s].pc = "persist" /\ reqs'[s] = Idle
    ]_vars

\* An upload has just failed and the store holds what it held before.
UploadFailedNothingStored ==
  /\ last.op = "create" /\ last.status = 500 /\ last.message = UploadError
  /\ DOMAIN properties = 1..MaxProps

\* C9: a create whose six required fields are present and well formed
\* succeeds with a document owned by the caller, the other fields being absent
\* or well formed and no upload failing; a create with a required field absent
\* or malformed is answered 400.
RequiredOk(b) ==
  /\ \A f \in PlainFields : b[f] # NoText
  /\ \A f \in RequiredJson : JSONparse(b[f]).ok /\ JSONparse(b[f]).val # Null

OptionalOk(b) == \A f \in OptionalJson : b[f] = Undefined \/ JSONparse(b[f]).ok

CreateNeedsOnlyRequired ==
  last.op = "create" =>
    /\ (RequiredOk(last.body) /\ OptionalOk(last.body) /\ last.message # UploadError)
         => /\ last.status = 201
            /\ last.property.owner = last.caller
            /\ last.property \in {properties[p] : p \in DOMAIN properties}
    /\ ~RequiredOk(last.body) => last.status = 400

(***************************************************************************)
(* POST /signup                                                            *)
(***************************************************************************)
AAccepts(s) == areqs[s].pc = "idle" /\ \A t \in Slots : t < s => areqs[t].pc # "idle"

\* The auth handler on connection s ends with a response.
AFinish(s, resp) ==
  /\ areqs' = [areqs EXCEPT ![s] = AIdle]
  /\ alast' = resp
  /\ UNCHANGED <<propVars, listVars>>

\* The auth handler on connection s suspends at its next await.
ASuspend(s, r) ==
  /\ areqs' = [areqs EXCEPT ![s] = r]
  /\ alast' = ANoResp
  /\ UNCHANGED <<propVars, listVars>>

\* Lines 14-27: the two validations.
SignupCheck(body) ==
  IF FalsyString(body.fullName) \/ FalsyString(body.password) \/ FalsyString(body.accountType)
  THEN "fields"
  ELSE IF FalsyString(body.email) /\ FalsyString(body.mobile) THEN "identity"
  ELSE "ok"

\* Lines 32-33 and 41-42: existingUser, truthy when a document came back.
EmailTaken(email) == FindByEmail(email) # NoUser
MobileTaken(mobile) == FindByMobile(mobile) # NoUser

EmailExists(r) ==
  AResp(r, 400, "User with this email already exists", NoUser, NoToken)
MobileExists(r) ==
  AResp(r, 400, "User with this mobile number already exists", NoUser, NoToken)

\* Lines 9-48: a signup arrives; validation, then the first lookup (by email
\* when the form has one, else by mobile).
Signup(s) ==
  /\ AAccepts(s)
  /\ Len(users) + InFlightSignups < MaxUsers
  /\ \E body \in SignupBodies :
       LET c == SignupCheck(body)
           r == [AIdle EXCEPT !.op = "signup", !.body = body,
                              !.taken = DuplicateKey(NewUser(0, body))]
       IN
         CASE c = "fields" ->
                AFinish(s, AResp(r, 400, "Please provide full name, password, and account type",
                                 NoUser, NoToken))
           [] c = "identity" ->
                AFinish(s, AResp(r, 400, "Please provide either email or mobile number",
                                 NoUser, NoToken))
           [] c = "ok" /\ ~FalsyString(body.email) ->
                IF EmailTaken(body.email) THEN AFinish(s, EmailExists(r))
                ELSE ASuspend(s, [r EXCEPT !.pc = IF FalsyString(body.mobile)
                                                  THEN "create" ELSE "mobile"])
           [] OTHER ->
                IF MobileTaken(body.mobile) THEN AFinish(s, MobileExists(r))
                ELSE ASuspend(s, [r EXCEPT !.pc = "create"])
  /\ UNCHANGED users

\* Lines 40-48, for a form with both: the lookup by mobile after the one by email.
SignupFindMobile(s) ==
  /\ areqs[s].op = "signup" /\ areqs[s].pc = "mobile"
  /\ IF MobileTaken(areqs[s].body.mobile) THEN AFinish(s, MobileExists(areqs[s]))
     ELSE ASuspend(s, [areqs[s] EXCEPT !.pc = "create"])
  /\ UNCHANGED users

\* Lines 51-77: User.create, the token and the 201; a duplicate key makes
\* create throw into the catch (lines 79-85), which answers error.message.
SignupCreate(s) ==
  /\ areqs[s].op = "signup" /\ areqs[s].pc = "create"
  /\ LET doc == NewUser(Len(users) + 1, areqs[s].body) IN
       IF DuplicateKey(doc)
       THEN /\ users' = users
            /\ AFinish(s, AResp(areqs[s], 500, "E11000 duplicate key error", NoUser, NoToken))
       ELSE /\ users' = Append(users, doc)
            /\ AFinish(s, AResp(areqs[s], 201, "Account created successfully", doc,
                                GenerateToken(doc._id)))

(***************************************************************************)
(* POST /login                                                             *)
(***************************************************************************)
\* Lines 107-111: the '@' decides which field is searched, with no fallback.
FindForLogin(ident) ==
  IF Includes(ident, "@") THEN FindByEmail(ident) ELSE FindByMobile(ident)

InvalidCredentials(r) == AResp(r, 401, "Invalid credentials", r.user, NoToken)

\* The two checks in the other order: the active flag before the password.
LoginOutcomeActiveFirst(r) ==
  IF ~r.user.isActive
  THEN AResp(r, 403, "Your account has been deactivated. Please contact support.",
             r.user, NoToken)
  ELSE IF ~ComparePassword(r.password, r.user.password) THEN InvalidCredentials(r)
  ELSE AResp(r, 200, "Login successful", r.user, GenerateToken(r.user._id))

\* Lines 122-157, on the user that was loaded: the password, then the active
\* flag, then the token.
LoginOutcome(r) ==
  IF ~ComparePassword(r.password, r.user.password) THEN InvalidCredentials(r)
  ELSE IF ~r.user.isActive
       THEN AResp(r, 403, "Your account has been deactivated. Please contact support.",
                  r.user, NoToken)
  ELSE AResp(r, 200, "Login successful", r.user, GenerateToken(r.user._id))

\* Lines 91-119: a login arrives; validation, the lookup, and the 401 when
\* nobody matches.
Login(s) ==
  /\ AAccepts(s)
  /\ \E body \in LoginBodies :
       LET r == [AIdle EXCEPT !.op = "login", !.ident = body.emailOrMobile,
                              !.password = body.password]
           user == FindForLogin(body.emailOrMobile)
       IN
         IF FalsyString(body.emailOrMobile) \/ FalsyString(body.password)
         THEN AFinish(s, AResp(r, 400, "Please provide email/mobile and password",
                               NoUser, NoToken))
         ELSE IF user = NoUser THEN AFinish(s, InvalidCredentials(r))
         ELSE ASuspend(s, [r EXCEPT !.pc = "compare", !.user = user])
  /\ UNCHANGED users

\* Lines 122-157: comparePassword resolves.
LoginCompare(s) ==
  /\ areqs[s].op = "login" /\ areqs[s].pc = "compare"
  /\ AFinish(s, LoginOutcome(areqs[s]))
  /\ UNCHANGED users

\* The account-status process outside the routes: it sets a user's active flag.
SetActive(u) ==
  /\ users' = [users EXCEPT ![u].isActive = ~users[u].isActive]
  /\ alast' = ANoResp
  /\ UNCHANGED <<areqs, propVars, listVars>>

(***************************************************************************)
(* The auth routes under concurrent requests                               *)
(***************************************************************************)
NextAuth ==
  \/ \E s \in Slots :
       \/ Signup(s) \/ SignupFindMobile(s) \/ SignupCreate(s)
       \/ Login(s) \/ LoginCompare(s)
  \/ \E u \in UserIds : SetActive(u)

SpecAuth == Init /\ [][NextAuth]_vars

(***************************************************************************)
(* Properties of the auth routes                                           *)
(***************************************************************************)
UniqueIdentity ==
  \A u, v \in UserIds :
    u # v => /\ (users[u].email # NoText => users[u].email # users[v].email)
             /\ (users[u].mobile # NoText => users[u].mobile # users[v].mobile)

DuplicateMessages ==
  {"User with this email already exists", "User with this mobile number already exists"}

\* C5: whatever signups run and however their lookups and creates interleave,
\* no two stored users share an email and no two share a mobile; and a signup
\* with a valid form that is answered while its email or mobile belongs to a
\* stored user is answered 400 with one of the two "already exists" messages
\* and stores no user.
DuplicateIdentityRefused ==
  [][/\ UniqueIdentity'
     /\ (/\ alast'.op = "signup"
         /\ SignupCheck(alast'.body) = "ok"
         /\ DuplicateKey(NewUser(0, alast'.body)))
          => (alast'.status = 400 /\ alast'.message \in DuplicateMessages /\ users' = users)]_vars

\* What the signup route does keep: identities stay unique, a signup that is
\* not answered 201 stores nothing, and one whose email or mobile was stored
\* when it arrived is answered 400 "already exists".
DuplicateOnArrivalRefused ==
  [][/\ UniqueIdentity'
     /\ (alast'.op = "signup" /\ alast'.taken /\ SignupCheck(alast'.body) = "ok")
          => (alast'.status = 400 /\ alast'.message \in DuplicateMessages /\ users' = users)
     /\ (alast'.op = "signup" /\ alast'.status # 201) => users' = users]_vars

\* Some stored user is the one the identifier names.
Matched(ident) ==
  \E u \in UserIds : users[u].email = ident \/ users[u].mobile = ident

\* C7: a login with both fields whose identifier matches no user, or whose
\* password does not verify against the matched user, is answered 401 with
\* the one message "Invalid credentials"; 403 is answered only when the
\* password verified and the matched user's active flag is false; a token is
\* issued with 200 only.
LoginFailuresAreOrdered ==
  [][alast'.op = "login" =>
       LET r == alast'
           verified == r.user # NoUser /\ ComparePassword(r.password, r.user.password)
       IN
         /\ r.user # NoUser => (r.user.email = r.ident \/ r.user.mobile = r.ident)
         /\ (r.user = NoUser /\ r.status # 400) => ~Matched(r.ident)
         /\ (r.status # 400 /\ ~verified)
              => (r.status = 401 /\ r.message = "Invalid credentials")
         /\ r.status = 403 => (verified /\ ~r.user.isActive)
         /\ r.status = 200 => (verified /\ r.user.isActive)
         /\ r.status \in {200, 400, 401, 403}
         /\ r.token # NoToken <=> r.status = 200]_vars

\* A deactivated user logged in with a wrong password and got the 401.
DisabledWrongPassword ==
  /\ alast.op = "login" /\ alast.status = 401
  /\ alast.user # NoUser /\ ~alast.user.isActive
  /\ ~ComparePassword(alast.password, alast.user.password)

(***************************************************************************)
(* GET /  (the public list)                                                *)
(***************************************************************************)
\* Number(text) for the numerals of a query: [nan |-> TRUE] for anything that
\* is not a run of digits.
DigitValue ==
  [c \in {"0", "1", "2", "3", "4", "5", "6", "7", "8", "9"} |->
     CASE c = "0" -> 0 [] c = "1" -> 1 [] c = "2" -> 2 [] c = "3" -> 3 [] c = "4" -> 4
       [] c = "5" -> 5 [] c = "6" -> 6 [] c = "7" -> 7 [] c = "8" -> 8 [] c = "9" -> 9]

RECURSIVE DigitsValue(_)
DigitsValue(text) ==
  IF Len(text) = 0 THEN 0
  ELSE 10 * DigitsValue(SubSeq(text, 1, Len(text) - 1)) + DigitValue[text[Len(text)]]

NumberOf(text) ==
  IF \A i \in 1..Len(text) : text[i] \in DOMAIN DigitValue
  THEN [nan |-> FALSE, n |-> DigitsValue(text)]
  ELSE [nan |-> TRUE, n |-> 0]

\* Case folding of the 'i' flag.
LowerOf ==
  [c \in {"A", "B", "D", "F", "N", "S", "V"} |->
     CASE c = "A" -> "a" [] c = "B" -> "b" [] c = "D" -> "d" [] c = "F" -> "f"
       [] c = "N" -> "n" [] c = "S" -> "s" [] c = "V" -> "v"]

Lower(c) == IF c \in DOMAIN LowerOf THEN LowerOf[c] ELSE c

\* new RegExp(pattern, 'i') for a pattern of letters, digits, "." and "(":
\* a "(" opens a group that nothing closes, and the constructor throws a
\* SyntaxError.
RegExpCompiles(pattern) == ~\E j \in 1..Len(pattern) : pattern[j] = "("

\* One character of the text against one of the pattern: "." takes any
\* character, a letter or digit takes itself, case ignored.
RegExpChar(p, c) == p = "." \/ Lower(c) = Lower(p)

\* new RegExp(pattern, 'i').test(text): the pattern matches somewhere in the
\* text.
RegExpTest(pattern, text) ==
  \E i \in 0..(Len(text) - Len(pattern)) :
    \A j \in 1..Len(pattern) : RegExpChar(pattern[j], text[i + j])

\* The path a.b of a document: present when a is an object with a field b.
HasPath(doc, a, b) == doc[a] # Null /\ b \in DOMAIN doc[a]

\* The filter with no restriction to available properties.
BaseFilterAll(doc) == TRUE

\* Line 122: let filter = { isAvailable: true }.
BaseFilter(doc) == doc.isAvailable = TRUE

\* Lines 124-160: the filter built from the query, applied to one document.
Matches(doc, q) ==
  /\ BaseFilter(doc)
  /\ q.propertyType # NoText => doc.propertyType = q.propertyType
  /\ q.division # NoText =>
       HasPath(doc, "location", "division") /\ RegExpTest(q.division, doc.location.division)
  /\ q.district # NoText =>
       HasPath(doc, "location", "district") /\ RegExpTest(q.district, doc.location.district)
  /\ q.area # NoText =>
       HasPath(doc, "location", "area") /\ RegExpTest(q.area, doc.location.area)
  /\ q.minRent # NoText =>
       /\ HasPath(doc, "rent", "amount")
       /\ ~NumberOf(q.minRent).nan /\ doc.rent.amount >= NumberOf(q.minRent).n
  /\ q.maxRent # NoText =>
       /\ HasPath(doc, "rent", "amount")
       /\ ~NumberOf(q.maxRent).nan /\ doc.rent.amount <= NumberOf(q.maxRent).n
  /\ q.bedrooms # NoText =>
       /\ HasPath(doc, "features", "bedrooms")
       /\ ~NumberOf(q.bedrooms).nan /\ doc.features.bedrooms = NumberOf(q.bedrooms).n
  /\ q.furnished # NoText =>
       HasPath(doc, "features", "furnished") /\ doc.features.furnished = q.furnished
  /\ q.search # NoText =>
       RegExpTest(q.search, doc.title) \/ RegExpTest(q.search, doc.description)

\* Lines 117-118: page = 1, limit = 10 when the query has none.
DefaultPage == 1
DefaultLimit == 10

PageOf(q) == IF q.page = NoText THEN DefaultPage ELSE NumberOf(q.page).n
LimitOf(q) == IF q.limit = NoText THEN DefaultLimit ELSE NumberOf(q.limit).n

\* .sort({ createdAt: -1 }): ids are handed out in order of creation.
RECURSIVE SortDesc(_)
SortDesc(ids) ==
  IF ids = {} THEN <<>>
  ELSE LET m == CHOOSE x \in ids : \A y \in ids : y <= x
       IN <<m>> \o SortDesc(ids \ {m})

Matching(q) == {p \in DOMAIN properties : Matches(properties[p], q)}

\* The page taken from the head of the results, whatever the offset.
SkipIgnored(seq, skip, limit) ==
  IF limit = 0 \/ Len(seq) <= limit THEN seq ELSE SubSeq(seq, 1, limit)

\* .skip(skip).limit(limit) of a sequence; limit(0) is no limit.
SkipLimit(seq, skip, limit) ==
  LET rest == SubSeq(seq, skip + 1, Len(seq))
  IN IF limit = 0 \/ Len(rest) <= limit THEN rest ELSE SubSeq(rest, 1, limit)

\* Lines 163-170: Property.find(filter).sort(..).skip(skip).limit(limit).
Find(q) ==
  LET ids == SkipLimit(SortDesc(Matching(q)), (PageOf(q) - 1) * LimitOf(q), LimitOf(q))
  IN [i \in 1..Len(ids) |-> properties[ids[i]]]

\* Math.ceil(total / limit)
CeilDiv(total, limit) == (total + limit - 1) \div limit

\* Lines 128-160: the four new RegExp(..) of the filter all construct.
FilterBuilds(q) ==
  \A f \in {"division", "district", "area", "search"} :
    q[f] # NoText => RegExpCompiles(q[f])

\* Lines 104-170: a list request arrives; up to the find.  A RegExp that
\* does not construct throws into the catch (lines 185-190).
ListFind ==
  /\ lreq.pc = "idle"
  /\ \E q \in Queries :
       IF FilterBuilds(q)
       THEN /\ lreq' = [pc |-> "count", query |-> q, found |-> Find(q)]
            /\ lresp' = LNoResp
       ELSE /\ lreq' = LIdle
            /\ lresp' = [LNoResp EXCEPT !.status = 500, !.query = q]
  /\ UNCHANGED <<propVars, authVars>>

\* Lines 173-183: countDocuments(filter) and the response.
ListCount ==
  /\ lreq.pc = "count"
  /\ LET q == lreq.query
         total == Cardinality(Matching(q))
     IN lresp' = [status |-> 200, query |-> q, properties |-> lreq.found,
                  count |-> Len(lreq.found), total |-> total,
                  totalPages |-> CeilDiv(total, LimitOf(q)),
                  currentPage |-> PageOf(q)]
  /\ lreq' = LIdle
  /\ UNCHANGED <<propVars, authVars>>

\* The forms the documents of the list stores were created from.
ListBody(k) ==
  CASE k = 0 -> GoodBody
    [] k = 1 -> [GoodBody EXCEPT !.title = Villa, !.propertyType = House,
                                 !.location = "{loc2}", !.rent = "{rent2}",
                                 !.features = "{features2}"]
    [] OTHER -> [GoodBody EXCEPT !.rent = "{rent2}", !.description = Villa]

\* The store after n creates and the toggles that made `off` unavailable.
ListStore(n, off) ==
  [p \in 1..n |->
     [Stored(NewDoc("u1", ListBody(p % 3), <<>>), p) EXCEPT !.isAvailable = p \notin off]]

InitListed ==
  /\ \E n \in 0..MaxListProps :
       \E off \in {x \in SUBSET (1..n) : Cardinality(x) <= 1} :
         /\ properties = ListStore(n, off)
         /\ nextId = n + 1
  /\ reqs = [s \in Slots |-> Idle]
  /\ last = NoResp
  /\ tog = [on |-> FALSE, h |-> [p \in {} |-> NoTog]]
  /\ InitAuth
  /\ InitList

\* One list request is followed from its arrival to its response.
NextList ==
  \/ (lresp = LNoResp /\ ListFind)
  \/ ListCount

SpecList == InitListed /\ [][NextList]_vars

(***************************************************************************)
(* Properties of the list                                                  *)
(***************************************************************************)
Returned(p) == \E i \in 1..Len(lresp.properties) : lresp.properties[i]._id = p

NoUnavailableReturned ==
  \A i \in 1..Len(lresp.properties) : lresp.properties[i].isAvailable

Available == {p \in DOMAIN properties : properties[p].isAvailable}

\* The k most recent of a set of ids.
MostRecent(ids, k) == {p \in ids : Cardinality({x \in ids : x > p}) < k}

\* C3 as stated: the list with no parameters returns a stored property
\* exactly when it is available, and no list ever returns an unavailable one.
ListReturnsEveryAvailable ==
  lresp.status = 200 =>
    /\ NoUnavailableReturned
    /\ lresp.query = NoQuery => \A p \in DOMAIN properties : Returned(p) <=> p \in Available

\* C3: the list with no parameters returns a stored property exactly when it
\* is available and among the DefaultLimit most recently created available
\* ones (page 1 of 10); and no list, whatever its filters, page and limit,
\* returns an unavailable property.
ListReturnsFirstPageOfAvailable ==
  lresp.status = 200 =>
    /\ NoUnavailableReturned
    /\ lresp.query = NoQuery =>
         \A p \in DOMAIN properties :
           Returned(p) <=> p \in MostRecent(Available, DefaultLimit)

\* The list with no parameters on a store with more than DefaultLimit
\* available properties and an unavailable one.
DefaultListOverFullStore ==
  /\ lresp.status = 200 /\ lresp.query = NoQuery
  /\ Cardinality(Available) > DefaultLimit
  /\ Available # DOMAIN properties
  /\ Len(lresp.properties) = DefaultLimit

\* The page and the limit a query of the model asks for, read off its text.
PageAsked(q) == CASE q.page = <<"1">> -> 1 [] q.page = <<"2">> -> 2 [] OTHER -> 1
LimitAsked(q) == CASE q.limit = <<"1">> -> 1 [] q.limit = <<"2">> -> 2 [] OTHER -> 10

\* The position of p among the ids, most recent first.
Position(p, ids) == Cardinality({x \in ids : x >= p})

\* C11: a list answered 200 returns, in order, the matching properties at
\* positions (page-1)*limit+1 .. page*limit of the most-recent-first order
\* (fewer on the last page, none beyond it), with count their number, total
\* the number of matching properties, totalPages = ceil(total/limit) and
\* currentPage = page; page and limit are 1 and 10 when the query has none.
ListReturnsThePage ==
  lresp.status = 200 =>
    LET q == lresp.query
        page == PageAsked(q)
        limit == LimitAsked(q)
        ids == Matching(q)
        first == (page - 1) * limit + 1
        onPage == {p \in ids : Position(p, ids) >= first /\ Position(p, ids) <= page * limit}
    IN /\ Len(lresp.properties) = Cardinality(onPage)
       /\ \A i \in 1..Len(lresp.properties) :
            /\ lresp.properties[i]._id \in ids
            /\ Position(lresp.properties[i]._id, ids) = first + i - 1
            /\ lresp.properties[i] = properties[lresp.properties[i]._id]
       /\ lresp.count = Len(lresp.properties)
       /\ lresp.total = Cardinality(ids)
       /\ lresp.totalPages * limit >= lresp.total
       /\ (lresp.totalPages - 1) * limit < lresp.total \/ lresp.totalPages = 0
       /\ lresp.totalPages >= 0
       /\ lresp.currentPage = page

\* A second page that is the last one and is not full.
ShortLastPage ==
  /\ lresp.status = 200 /\ lresp.query.page = <<"2">>
  /\ lresp.count > 0 /\ lresp.count < LimitAsked(lresp.query)
  /\ lresp.totalPages = 2
  /\ lresp.total = LimitAsked(lresp.query) + lresp.count

\* The term occurs in the text, case ignored.
OccursIn(term, text) ==
  \E i \in 0..(Len(text) - Len(term)) :
    \A j \in 1..Len(term) : Lower(text[i + j]) = Lower(term[j])

\* The amount a rent bound of the model names.
AmountAsked(text) == IF text = Rent3000 THEN 3000 ELSE 4000

\* The property satisfies every filter the query supplies.
Satisfies(doc, q) ==
  /\ doc.isAvailable
  /\ q.propertyType # NoText => doc.propertyType = q.propertyType
  /\ q.division # NoText => OccursIn(q.division, doc.location.division)
  /\ q.district # NoText => OccursIn(q.district, doc.location.district)
  /\ q.area # NoText => OccursIn(q.area, doc.location.area)
  /\ q.minRent # NoText => doc.rent.amount >= AmountAsked(q.minRent)
  /\ q.maxRent # NoText => doc.rent.amount <= AmountAsked(q.maxRent)
  /\ q.bedrooms # NoText => doc.features.bedrooms = 2
  /\ q.furnished # NoText => doc.features.furnished = q.furnished
  /\ q.search # NoText => OccursIn(q.search, doc.title) \/ OccursIn(q.search, doc.description)

Satisfying(q) == {p \in DOMAIN properties : Satisfies(properties[p], q)}

MatchedIsSatisfying ==
  /\ lresp.status = 200
  /\ lresp.total = Cardinality(Satisfying(lresp.query))
  /\ \A p \in DOMAIN properties : Returned(p) => p \in Satisfying(lresp.query)

\* C12: every list is answered with the available properties that satisfy
\* all the filters it supplies at once: propertyType, bedrooms and furnished
\* by equality, minRent and maxRent as inclusive bounds (either alone), search
\* by the term occurring, case ignored, in the title or the description; a
\* filter that is absent excludes nothing.
ListMatchesEverySuppliedFilter ==
  lresp.status # 0 => MatchedIsSatisfying

\* What the filter does keep: the same, for the queries whose search term is
\* made of letters and digits.
ListMatchesWordFilters ==
  (lresp.status # 0 /\ lresp.query.search \notin {<<".">>, <<"(">>}) => MatchedIsSatisfying

\* Two filters at once cut the matches down, and both bounds are inclusive.
TwoFiltersNarrow ==
  /\ lresp.status = 200
  /\ lresp.query.minRent = Rent3000 /\ lresp.query.maxRent = Rent3000
  /\ lresp.total > 0 /\ lresp.total < Cardinality(Available)

(***************************************************************************)
(* Two toggles of one property at once                                     *)
(***************************************************************************)
\* The last step was the successful save of one toggle of property last.id,
\* and the toggle on connection t, by the same owner, loaded that property
\* before that save, with the value the other had loaded: the two overlap.
OverlapsLastToggle(t) ==
  /\ last.op = "toggle" /\ last.status = 200
  /\ reqs[t].op = "toggle" /\ reqs[t].pc = "write"
  /\ reqs[t].id = last.id /\ reqs[t].caller = last.caller
  /\ reqs[t].doc.isAvailable = last.property.isAvailable

\* This step is the successful save of the toggle on connection t.
SavesToggle(t) ==
  /\ reqs[t].op = "toggle" /\ reqs[t].pc = "write" /\ reqs'[t] = Idle
  /\ last'.op = "toggle" /\ last'.status = 200 /\ last'.id = reqs[t].id

\* C13: when two toggles by the owner of one property overlap and both are
\* answered with success, the property's isAvailable after the second save is
\* the value it had before the two (the negation of what each had set on the
\* document it loaded).
NoToggleLost ==
  [][\A t \in Slots :
       (OverlapsLastToggle(t) /\ SavesToggle(t))
         => properties'[reqs[t].id].isAvailable = ~reqs[t].doc.isAvailable]_vars

====
